---- MODULE Spec2Model ----
(***************************************************************************)
(* Model of backend/app.py: a Flask backend over five MongoDB collections. *)
(* Each request is handled by a worker; the handlers of concurrent         *)
(* requests interleave at their store calls.  The store executes each      *)
(* single call (find_one_and_update, update_one, insert_one) atomically.   *)
(***************************************************************************)
EXTENDS Integers, Sequences, FiniteSets, TLC

\* ------------------------------------------------------------------ bounds
NumWorkers == 2        \* requests that can be in flight at the same time
MaxRequests == 3       \* requests received in one behaviour

Workers == 1..NumWorkers

\* ------------------------------------------------------------ request data
\* request.files / request.form: a mapping from the parts that are present.
\* A file part whose filename is empty is falsy (FileStorage.__bool__).
Jpeg == [filename |-> "a.jpg", content_type |-> "image/jpeg", bytes |-> "abc"]
EmptyPart == [filename |-> "", content_type |-> "application/octet-stream", bytes |-> ""]
NoParts == [k \in {} |-> Jpeg]
NoFields == [k \in {} |-> ""]

Files == {NoParts, [k \in {"image"} |-> Jpeg], [k \in {"image"} |-> EmptyPart]}
FieldValues == {"", "X"}
FormsOver(keys) == UNION {[s -> FieldValues] : s \in SUBSET keys}
ProjectFields == {"name", "description"}
ClientFields == {"name", "description", "designation"}

\* request.json: absent (None) or a JSON object
NoBody == [kind |-> "none", items |-> NoFields]
Object(f) == [kind |-> "dict", items |-> f]
ContactPayloads == {NoBody, Object(NoFields), Object([k \in {"name"} |-> "A"])}
SubscribePayloads ==
    {NoBody, Object(NoFields), Object([k \in {"name"} |-> "A"]),
     Object([k \in {"email"} |-> "a@b.com"]),
     Object([k \in {"email", "name"} |-> IF k = "email" THEN "a@b.com" ELSE "A"])}

\* Python truthiness of the values the handlers test with `not`
falsy_field(form, k) == k \notin DOMAIN form \/ form[k] = ""
falsy_file(file) == file.filename = ""
falsy_json(data) == data.kind = "none" \/ DOMAIN data.items = {}

\* f"data:{file.content_type};base64,{encoded_string}"
b64encode(bytes) == <<"b64", bytes>>
image_url(file) == <<"data:", file.content_type, ";base64,", b64encode(file.bytes)>>

\* ------------------------------------------------------------------- state
VARIABLES
    counter_collection,     \* db['counters']: sequence name -> sequence_value
    projects_collection,    \* db['projects']: documents in insertion order
    clients_collection,     \* db['clients']
    contacts_collection,    \* db['contacts']
    subscribers_collection, \* db['subscribers']
    pc,                     \* per worker: position in the handler it runs
    req,                    \* per worker: the request being handled
    next_id,                \* per worker: the value get_next_id returned
    writes,                 \* per worker: store writes of the current request
    issued,                 \* history of the values get_next_id returned
    resp,                   \* the response most recently returned
    nreq                    \* requests received so far

store == <<counter_collection, projects_collection, clients_collection,
           contacts_collection, subscribers_collection>>
vars == <<counter_collection, projects_collection, clients_collection,
          contacts_collection, subscribers_collection,
          pc, req, next_id, writes, issued, resp, nreq>>

NoReq == [op |-> "none", files |-> NoParts, form |-> NoFields, json |-> NoBody]
NoResp == [req |-> NoReq, status |-> 0, id |-> 0, writes |-> <<>>]

Init ==
    /\ counter_collection = [n \in {} |-> 0]
    /\ projects_collection = <<>>
    /\ clients_collection = <<>>
    /\ contacts_collection = <<>>
    /\ subscribers_collection = <<>>
    /\ pc = [w \in Workers |-> "idle"]
    /\ req = [w \in Workers |-> NoReq]
    /\ next_id = [w \in Workers |-> 0]
    /\ writes = [w \in Workers |-> <<>>]
    /\ issued = <<>>
    /\ resp = NoResp
    /\ nreq = 0

\* ------------------------------------------------------------- store calls
\* variant: '$set' written where '$inc' is meant
find_one_and_update_set(counters, n) ==
    IF n \in DOMAIN counters THEN [counters EXCEPT ![n] = 1]
    ELSE counters @@ (n :> 1)

\* variant: the upsert creates the counter at 0 and later calls increment it
find_one_and_update_from_zero(counters, n) ==
    IF n \in DOMAIN counters THEN [counters EXCEPT ![n] = @ + 1]
    ELSE counters @@ (n :> 0)

\* find_one_and_update({'_id': n}, {'$inc': {'sequence_value': 1}}, upsert=True)
find_one_and_update(counters, n) ==
    IF n \in DOMAIN counters THEN [counters EXCEPT ![n] = @ + 1]
    ELSE counters @@ (n :> 1)

\* variant: '$setOnInsert', which initialises the counter only when it is missing
update_one_if_missing(counters, n) ==
    IF n \in DOMAIN counters THEN counters
    ELSE counters @@ (n :> 1)

\* update_one({'_id': n}, {'$set': {'sequence_value': 1}}, upsert=True)
update_one(counters, n) ==
    IF n \in DOMAIN counters THEN [counters EXCEPT ![n] = 1]
    ELSE counters @@ (n :> 1)

\* variant: the write replaces the stored documents instead of adding one
insert_one_replacing(collection, doc) == <<doc>>

insert_one(collection, doc) == Append(collection, doc)

\* variant: the document is stored and the exception comes after it
insert_one_raising_late(collection, doc) == Append(collection, doc)

\* what insert_one leaves behind when it raises: nothing was stored
insert_one_raising(collection, doc) == collection

\* variant: both admin routes draw from the 'projects' sequence
sequence_of_shared(op) == "projects"

\* the sequence a handler draws its ids from
sequence_of(op) == IF op = "add_project" THEN "projects" ELSE "clients"

\* ---------------------------------------------------------------- handlers
\* A handler returns: the response is recorded and the worker is free again.
Return(w, r, status, id, ws) ==
    /\ resp' = [req |-> r, status |-> status, id |-> id, writes |-> ws]
    /\ pc' = [pc EXCEPT ![w] = "idle"]
    /\ req' = [req EXCEPT ![w] = NoReq]
    /\ next_id' = [next_id EXCEPT ![w] = 0]
    /\ writes' = [writes EXCEPT ![w] = <<>>]

\* A new request goes to a free worker; workers are interchangeable, so the
\* lowest-numbered free one takes it.
Receive(w) ==
    /\ pc[w] = "idle"
    /\ \A v \in Workers : v < w => pc[v] # "idle"
    /\ nreq < MaxRequests
    /\ nreq' = nreq + 1

\* variant: the description check is left out
missing_project_field_name_only(form) == falsy_field(form, "name")

\* required form fields of the admin routes
missing_project_field(form) ==
    falsy_field(form, "name") \/ falsy_field(form, "description")

missing_client_field(form) ==
    \/ falsy_field(form, "name")
    \/ falsy_field(form, "description")
    \/ falsy_field(form, "designation")

\* The part of an admin handler that runs before get_next_id: the presence
\* checks and the encoding of the image.  status 0 stands for the handler
\* falling off its end (`if file:` false), which returns no response value.
AdminBegin(w, r, missing) ==
    /\ UNCHANGED <<store, issued>>
    /\ IF "image" \notin DOMAIN r.files THEN Return(w, r, 400, 0, <<>>)
       ELSE IF missing THEN Return(w, r, 400, 0, <<>>)
       ELSE IF falsy_file(r.files["image"]) THEN Return(w, r, 0, 0, <<>>)
       ELSE \/ Return(w, r, 500, 0, <<>>)      \* file.read() raises
            \/ /\ pc' = [pc EXCEPT ![w] = "get_next_id"]
               /\ req' = [req EXCEPT ![w] = r]
               /\ UNCHANGED <<next_id, writes, resp>>

add_project(w) ==
    /\ Receive(w)
    /\ \E files \in Files, form \in FormsOver(ProjectFields) :
          AdminBegin(w, [op |-> "add_project", files |-> files, form |-> form,
                         json |-> NoBody],
                     missing_project_field(form))

add_client(w) ==
    /\ Receive(w)
    /\ \E files \in Files, form \in FormsOver(ClientFields) :
          AdminBegin(w, [op |-> "add_client", files |-> files, form |-> form,
                         json |-> NoBody],
                     missing_client_field(form))

\* get_next_id, first store call.  The store either returns the updated
\* document, or reports no document, or raises (caught by the handler).
get_next_id(w) ==
    /\ pc[w] = "get_next_id"
    /\ LET n == sequence_of(req[w].op) IN
       \/ /\ counter_collection' = find_one_and_update(counter_collection, n)
          /\ next_id' = [next_id EXCEPT ![w] = counter_collection'[n]]
          /\ issued' = Append(issued, [name |-> n, value |-> counter_collection'[n],
                                       path |-> "atomic"])
          /\ writes' = [writes EXCEPT ![w] = Append(@, "counters")]
          /\ pc' = [pc EXCEPT ![w] = "insert"]
          /\ UNCHANGED <<projects_collection, clients_collection, contacts_collection,
                         subscribers_collection, req, resp, nreq>>
       \/ /\ pc' = [pc EXCEPT ![w] = "fallback"]
          /\ UNCHANGED <<store, req, next_id, writes, issued, resp, nreq>>
       \/ /\ Return(w, req[w], 500, 0, writes[w])
          /\ UNCHANGED <<store, issued, nreq>>

\* get_next_id, `if not counter:` branch: a separate upsert, then return 1
get_next_id_fallback(w) ==
    /\ pc[w] = "fallback"
    /\ LET n == sequence_of(req[w].op) IN
       \/ /\ counter_collection' = update_one(counter_collection, n)
          /\ next_id' = [next_id EXCEPT ![w] = 1]
          /\ issued' = Append(issued, [name |-> n, value |-> 1,
                                       path |-> "fallback"])
          /\ writes' = [writes EXCEPT ![w] = Append(@, "counters")]
          /\ pc' = [pc EXCEPT ![w] = "insert"]
          /\ UNCHANGED <<projects_collection, clients_collection, contacts_collection,
                         subscribers_collection, req, resp, nreq>>
       \/ /\ Return(w, req[w], 500, 0, writes[w])
          /\ UNCHANGED <<store, issued, nreq>>

project_data(w) ==
    [id |-> next_id[w], name |-> req[w].form["name"],
     description |-> req[w].form["description"],
     image_url |-> image_url(req[w].files["image"])]

client_data(w) ==
    [id |-> next_id[w], name |-> req[w].form["name"],
     description |-> req[w].form["description"],
     designation |-> req[w].form["designation"],
     image_url |-> image_url(req[w].files["image"])]

\* projects_collection.insert_one(project_data), then the 201 response
insert_project(w) ==
    /\ pc[w] = "insert"
    /\ req[w].op = "add_project"
    /\ UNCHANGED <<counter_collection, clients_collection, contacts_collection,
                   subscribers_collection, issued, nreq>>
    /\ \/ /\ projects_collection' = insert_one(projects_collection, project_data(w))
          /\ Return(w, req[w], 201, next_id[w], Append(writes[w], "projects"))
       \/ /\ projects_collection' = insert_one_raising(projects_collection, project_data(w))
          /\ Return(w, req[w], 500, 0, writes[w])

insert_client(w) ==
    /\ pc[w] = "insert"
    /\ req[w].op = "add_client"
    /\ UNCHANGED <<counter_collection, projects_collection, contacts_collection,
                   subscribers_collection, issued, nreq>>
    /\ \/ /\ clients_collection' = insert_one(clients_collection, client_data(w))
          /\ Return(w, req[w], 201, next_id[w], Append(writes[w], "clients"))
       \/ /\ clients_collection' = insert_one_raising(clients_collection, client_data(w))
          /\ Return(w, req[w], 500, 0, writes[w])

\* `if not data:` of submit_contact
contact_rejected(data) == falsy_json(data)

submit_contact(w) ==
    /\ Receive(w)
    /\ UNCHANGED <<counter_collection, projects_collection, clients_collection,
                   subscribers_collection, issued>>
    /\ \E data \in ContactPayloads :
          LET r == [op |-> "submit_contact", files |-> NoParts, form |-> NoFields,
                    json |-> data] IN
          IF contact_rejected(data)
          THEN /\ UNCHANGED contacts_collection
               /\ Return(w, r, 400, 0, <<>>)
          ELSE /\ contacts_collection' = insert_one(contacts_collection, data.items)
               /\ Return(w, r, 201, 0, <<"contacts">>)

\* variant: the 'email' check is left out
subscribe_rejected_any_body(data) == falsy_json(data)

\* `if not data or 'email' not in data:` of subscribe
subscribe_rejected(data) == falsy_json(data) \/ "email" \notin DOMAIN data.items

subscribe(w) ==
    /\ Receive(w)
    /\ UNCHANGED <<counter_collection, projects_collection, clients_collection,
                   contacts_collection, issued>>
    /\ \E data \in SubscribePayloads :
          LET r == [op |-> "subscribe", files |-> NoParts, form |-> NoFields,
                    json |-> data] IN
          IF subscribe_rejected(data)
          THEN /\ UNCHANGED subscribers_collection
               /\ Return(w, r, 400, 0, <<>>)
          ELSE /\ subscribers_collection' = insert_one(subscribers_collection, data.items)
               /\ Return(w, r, 201, 0, <<"subscribers">>)

Next ==
    \E w \in Workers :
        \/ add_project(w)
        \/ add_client(w)
        \/ get_next_id(w)
        \/ get_next_id_fallback(w)
        \/ insert_project(w)
        \/ insert_client(w)
        \/ submit_contact(w)
        \/ subscribe(w)

Spec == Init /\ [][Next]_vars

\* ------------------------------------------------------------- properties
\* The properties name the sequences and the validity of a request in their
\* own terms, not through the operators of the handlers.
SequenceNames == {"projects", "clients"}
own_sequence(op) == CASE op = "add_project" -> "projects"
                      [] op = "add_client" -> "clients"
                      [] OTHER -> "none"
sequence_value(n) == IF n \in DOMAIN counter_collection THEN counter_collection[n] ELSE 0
IssuedFor(n) == SelectSeq(issued, LAMBDA e : e.name = n)
AtomicOnly(n) == \A i \in DOMAIN issued : issued[i].name = n => issued[i].path = "atomic"
Max(S) == CHOOSE x \in S : \A y \in S : y <= x
IsAdmin(r) == r.op \in {"add_project", "add_client"}
RequiredFields(r) == IF r.op = "add_project" THEN {"name", "description"}
                     ELSE {"name", "description", "designation"}
HasImagePart(r) == "image" \in DOMAIN r.files
HasRequiredFields(r) == \A k \in RequiredFields(r) : k \in DOMAIN r.form /\ r.form[k] # ""
\* a step in which some handler returns its response
Returns == \/ \E w \in Workers : pc[w] # "idle" /\ pc'[w] = "idle"
           \/ nreq' = nreq + 1 /\ pc' = pc
Ids(collection) == [i \in DOMAIN collection |-> collection[i].id]
Distinct(seq) == \A i, j \in DOMAIN seq : i # j => seq[i] # seq[j]
IsPrefix(a, b) == Len(a) <= Len(b) /\ SubSeq(b, 1, Len(a)) = a

\* C1: as long as every get_next_id call for a sequence name has taken the
\* atomic find-and-modify path, the values returned for that name are pairwise
\* distinct, under any interleaving with calls for the same and other names.
C1_DistinctOnAtomicPath ==
    \A n \in SequenceNames :
        AtomicOnly(n) => Distinct([i \in DOMAIN IssuedFor(n) |-> IssuedFor(n)[i].value])

\* two calls for the same name were in flight together, a call for the other
\* name has been served too, and all of them took the atomic path
C1_Witness ==
    /\ \E v, w \in Workers :
          /\ v # w
          /\ pc[v] = "insert" /\ pc[w] = "insert"
          /\ req[v].op = "add_project" /\ req[w].op = "add_project"
    /\ Len(IssuedFor("projects")) >= 2
    /\ Len(IssuedFor("clients")) >= 1
    /\ AtomicOnly("projects") /\ AtomicOnly("clients")

\* C2: starting with no Counter document, the first call creates the counter
\* at 1 and returns 1, and on the atomic path the k-th call returns k and
\* leaves sequence_value = k: the values returned are 1, 2, ..., N.
C2_GapFreeOnAtomicPath ==
    \A n \in SequenceNames :
        AtomicOnly(n) =>
            /\ \A i \in DOMAIN IssuedFor(n) : IssuedFor(n)[i].value = i
            /\ IF IssuedFor(n) = <<>> THEN n \notin DOMAIN counter_collection
               ELSE n \in DOMAIN counter_collection
                    /\ counter_collection[n] = Len(IssuedFor(n))

C2_Witness ==
    /\ AtomicOnly("projects")
    /\ Len(IssuedFor("projects")) >= 3
    /\ counter_collection["projects"] = Len(IssuedFor("projects"))

\* C3: every id get_next_id hands to an admin request is one more than the
\* highest id issued before it for that sequence (1 if none), and a 201
\* response carries the id of the record it persisted.
C3_OneMoreThanHighest ==
    /\ \A i \in DOMAIN issued :
          issued[i].value =
              1 + Max({0} \cup {issued[j].value : j \in {k \in 1..(i - 1) :
                                                      issued[k].name = issued[i].name}})
    /\ (resp.status = 201 /\ resp.req.op = "add_project") =>
          projects_collection[Len(projects_collection)].id = resp.id
    /\ (resp.status = 201 /\ resp.req.op = "add_client") =>
          clients_collection[Len(clients_collection)].id = resp.id

\* C4: no step removes a Counter or lowers its sequence_value.
C4_CounterNeverDecreases ==
    [][\A n \in DOMAIN counter_collection :
          n \in DOMAIN counter_collection' /\ counter_collection'[n] >= counter_collection[n]]_vars

\* C5: an admin request without an image part, or with a missing or empty
\* required field, is answered 400 at once: it never reaches get_next_id and
\* the step that answers it changes no counter and no collection.
C5_RejectedBeforeAnyWrite ==
    [][nreq' = nreq + 1 =>
          /\ \A w \in Workers :
                pc[w] = "idle" /\ pc'[w] # "idle" =>
                    /\ pc'[w] = "get_next_id"
                    /\ HasImagePart(req'[w]) /\ HasRequiredFields(req'[w])
          /\ (pc' = pc /\ IsAdmin(resp'.req)
                /\ ~(HasImagePart(resp'.req) /\ HasRequiredFields(resp'.req))) =>
                    /\ resp'.status = 400
                    /\ resp'.writes = <<>>
                    /\ UNCHANGED store]_vars

\* an add_project with an image and a name but an empty description was
\* rejected while the 'projects' counter and collection held something
C5_Witness ==
    /\ resp.status = 400
    /\ resp.req.op = "add_project"
    /\ HasImagePart(resp.req)
    /\ "name" \in DOMAIN resp.req.form /\ resp.req.form["name"] = "X"
    /\ "description" \in DOMAIN resp.req.form /\ resp.req.form["description"] = ""
    /\ sequence_value("projects") >= 1
    /\ Len(projects_collection) >= 1

\* C6 as stated: a request that ends in 400 or 500 has written nothing.
C6_NoWriteOnFailure ==
    resp.status \in {400, 500} => resp.writes = <<>>

\* C6 amended: a request that ends in 400 has written nothing; a request that
\* ends in 500 has stored no document, but it may have updated its sequence
\* counter before failing; the step in which a request fails writes nothing.
C6_FailureKeepsCollections ==
    /\ [](/\ resp.status = 400 => resp.writes = <<>>
          /\ resp.status = 500 => resp.writes \in {<<>>, <<"counters">>})
    /\ [][(Returns /\ resp'.status \in {400, 500}) => UNCHANGED store]_vars

\* an add_project ended in 500 after its get_next_id call had updated the counter
C6_Witness ==
    /\ resp.status = 500
    /\ resp.req.op = "add_project"
    /\ resp.writes = <<"counters">>
    /\ sequence_value("projects") > Len(projects_collection)

C8_FallbackResetsToOne ==
    [][\A w \in Workers :
          (pc[w] = "fallback" /\ pc'[w] = "insert") =>
              /\ own_sequence(req[w].op) \in DOMAIN counter_collection'
              /\ counter_collection'[own_sequence(req[w].op)] = 1
              /\ next_id'[w] = 1]_vars

\* two callers of the same sequence hold the same value, one from the fallback
C8_Witness ==
    \E i, j \in DOMAIN issued :
        /\ i < j
        /\ issued[i].name = issued[j].name
        /\ issued[i].value = issued[j].value
        /\ issued[i].path = "atomic"
        /\ issued[j].path = "fallback"

\* C9: a counter changes only in a get_next_id step of a request for its own
\* sequence; that step leaves the other counter alone and the value it returns
\* depends on its own counter only; each admin route inserts only into its
\* own collection.
C9_SequencesIndependent ==
    [][/\ \A n \in SequenceNames :
             sequence_value(n)' # sequence_value(n) =>
                 /\ \E w \in Workers :
                       /\ pc[w] \in {"get_next_id", "fallback"}
                       /\ pc'[w] = "insert"
                       /\ own_sequence(req[w].op) = n
                 /\ \A m \in SequenceNames \ {n} : sequence_value(m)' = sequence_value(m)
       /\ issued' # issued =>
             /\ Len(issued') = Len(issued) + 1
             /\ LET e == issued'[Len(issued')] IN
                   /\ \E w \in Workers :
                         /\ pc[w] \in {"get_next_id", "fallback"}
                         /\ pc'[w] = "insert"
                         /\ own_sequence(req[w].op) = e.name
                         /\ next_id'[w] = e.value
                   /\ e.value = IF e.path = "atomic" THEN sequence_value(e.name) + 1 ELSE 1
                   /\ e.name \in DOMAIN counter_collection'
                   /\ counter_collection'[e.name] = e.value
       /\ projects_collection' # projects_collection =>
             \E w \in Workers : pc[w] = "insert" /\ pc'[w] = "idle"
                                /\ req[w].op = "add_project"
       /\ clients_collection' # clients_collection =>
             \E w \in Workers : pc[w] = "insert" /\ pc'[w] = "idle"
                                /\ req[w].op = "add_client"]_vars

\* both sequences have issued values, interleaved, and stand at different values
C9_Witness ==
    /\ Len(issued) >= 3
    /\ issued[1].name = "projects" /\ issued[2].name = "clients"
    /\ issued[3].name = "projects"
    /\ sequence_value("projects") = 2 /\ sequence_value("clients") = 1
    /\ Len(projects_collection) >= 1 /\ Len(clients_collection) >= 1

\* C10: while a sequence has only been served on the atomic path, the stored
\* records of its collection have pairwise distinct ids, each between 1 and
\* the counter's sequence_value, and there are at most sequence_value of them;
\* no step removes or changes a stored project or client.
C10_StoredIds ==
    /\ [](/\ AtomicOnly("projects") =>
               /\ Distinct(Ids(projects_collection))
               /\ \A i \in DOMAIN projects_collection :
                     projects_collection[i].id \in 1..sequence_value("projects")
               /\ Len(projects_collection) <= sequence_value("projects")
          /\ AtomicOnly("clients") =>
               /\ Distinct(Ids(clients_collection))
               /\ \A i \in DOMAIN clients_collection :
                     clients_collection[i].id \in 1..sequence_value("clients")
               /\ Len(clients_collection) <= sequence_value("clients"))
    /\ [][/\ IsPrefix(projects_collection, projects_collection')
          /\ IsPrefix(clients_collection, clients_collection')]_vars

\* concurrent add_project requests stored their records out of id order
C10_Witness ==
    /\ AtomicOnly("projects")
    /\ Len(projects_collection) >= 2
    /\ projects_collection[1].id > projects_collection[2].id

====
